---- MODULE Spec2Model ----
(***************************************************************************)
(* Model of fileconv/dumpers.py: the dumper registry `get`, the dumper     *)
(* classes (DumperProto, JSONDumper, PlistDumper, YAMLDumper), the value   *)
(* sanitizer DumperProto._validate_data and the driver DumperProto.dump.   *)
(*                                                                         *)
(* Python values live in a heap: a container (list, tuple, dict, set,      *)
(* plistlib._InternalDict) is a heap object holding cells, a cell is either *)
(* an immediate scalar or a reference to a heap object.  In-place mutation *)
(* by the sanitizer is therefore visible through every reference to the    *)
(* mutated object, as in Python.                                           *)
(***************************************************************************)
EXTENDS Integers, Sequences, FiniteSets, TLC

(***************************************************************************)
(* Bounds of the model.                                                    *)
(***************************************************************************)
\* largest number of nodes (scalars and containers) of a value handed to dump
MaxNodes == 2
\* largest number of nodes of a value handed to the sanitizer on its own
MaxNodesSan == 4
\* largest number of nodes of a value handed to two conversions at once
MaxNodesConc == 2

(***************************************************************************)
(* Scalars.  v is a number for every scalar kind: the truth value of a     *)
(* bool, the value of an int, the identity of a string, the day of a date  *)
(* or datetime, the payload string of a plistlib.Data.                     *)
(***************************************************************************)
Cell(k, v) == [k |-> k, v |-> v]
None     == Cell("none", 0)
PyTrue   == Cell("bool", 1)
PyFalse  == Cell("bool", 0)
Int1     == Cell("int", 1)
StrA     == Cell("str", 0)
Date1    == Cell("date", 1)
DateTime2 == Cell("datetime", 2)
DataA    == Cell("data", 0)
Ref(a)   == Cell("ref", a)

\* str(d) of a datetime.date: the ISO text of the day, a string no other
\* day and no datetime has
StrOfDate(d) == Cell("str", 10 + d.v)
\* str(d) of a datetime.datetime: the ISO text of day and time
StrOfDateTime(d) == Cell("str", 20 + d.v)
\* str(x) as the rules' transform `str` computes it on the values it is applied to
PyStr(x) == IF x.k = "datetime" THEN StrOfDateTime(x) ELSE StrOfDate(x)

Scalars == {None, PyTrue, Int1, StrA, StrOfDate(Date1), Date1, DateTime2, DataA}

ContainerKinds == {"list", "tuple", "dict", "set", "idict"}

IsRef(c) == c.k = "ref"

(***************************************************************************)
(* Heap objects and access.                                                *)
(***************************************************************************)
Obj(k, v, keys) == [k |-> k, v |-> v, keys |-> keys]

\* type of the value a cell denotes
KindOf(h, c) == IF IsRef(c) THEN h[c.v].k ELSE c.k

SeqToSet(s) == {s[i] : i \in DOMAIN s}

RemoveAt(s, i) == [j \in 1..(Len(s) - 1) |-> IF j < i THEN s[j] ELSE s[j + 1]]

(***************************************************************************)
(* Python's == on two values, each read in its own heap.  bool is an int    *)
(* (True == 1); plistlib.Data compares equal to a str of its payload; a    *)
(* plistlib._InternalDict is a dict and compares as one; containers of     *)
(* different types are unequal.  The one date and the one datetime of the  *)
(* model are of different days, so they are unequal in either order.       *)
(***************************************************************************)
RECURSIVE PyEq(_, _, _, _)
PyEq(h1, a, h2, b) ==
    IF IsRef(a) /\ IsRef(b)
    THEN LET x == h1[a.v]
             y == h2[b.v]
             xd == x.k \in {"dict", "idict"}
             yd == y.k \in {"dict", "idict"}
         IN  IF xd /\ yd
             THEN /\ SeqToSet(x.keys) = SeqToSet(y.keys)
                  /\ \A i \in DOMAIN x.keys : \A j \in DOMAIN y.keys :
                        x.keys[i] = y.keys[j] => PyEq(h1, x.v[i], h2, y.v[j])
             ELSE IF x.k # y.k THEN FALSE
             ELSE IF x.k = "set"
             THEN /\ Len(x.v) = Len(y.v)
                  /\ \A i \in DOMAIN x.v : \E j \in DOMAIN y.v : PyEq(h1, x.v[i], h2, y.v[j])
             ELSE /\ Len(x.v) = Len(y.v)
                  /\ \A i \in DOMAIN x.v : PyEq(h1, x.v[i], h2, y.v[i])
    ELSE IF IsRef(a) \/ IsRef(b) THEN FALSE
    ELSE IF a.k \in {"bool", "int"} /\ b.k \in {"bool", "int"} THEN a.v = b.v
    ELSE IF a.k \in {"str", "data"} /\ b.k \in {"str", "data"} THEN a.v = b.v
    ELSE a.k = b.k /\ a.v = b.v

\* `obj in checked`: list membership compares with ==
InChecked(h, checked, obj) == \E i \in DOMAIN checked : PyEq(h, checked[i], h, obj)

\* position of val in the element sequence of a set, 0 when absent
SetIndex(h, elems, val) ==
    IF \E i \in DOMAIN elems : PyEq(h, elems[i], h, val)
    THEN CHOOSE i \in DOMAIN elems : PyEq(h, elems[i], h, val)
    ELSE 0

(***************************************************************************)
(* Sanitization rules: the (is_invalid, validate) pairs of the funcs lists *)
(* the three dumpers pass to _validate_data.                               *)
(***************************************************************************)
\* JSONDumper.validate_data
JSONFuncs == <<"data_to_raw", "date_to_str", "datetime_to_str">>
\* PlistDumper.validate_data
PlistFuncs == <<"date_to_str", "none_to_False">>
\* YAMLDumper.validate_data
YAMLFuncs == <<"idict_to_dict", "data_to_raw">>

\* the first member of a rule, a predicate on the object
is_invalid(rule, h, obj) ==
    CASE rule = "data_to_raw"     -> KindOf(h, obj) = "data"
      [] rule = "date_to_str"     -> KindOf(h, obj) \in {"date", "datetime"}
      [] rule = "datetime_to_str" -> KindOf(h, obj) = "datetime"
      [] rule = "none_to_False"   -> obj = None
      [] rule = "idict_to_dict"   -> KindOf(h, obj) = "idict"

\* the second member of a rule, called on the object: the heap after the
\* call, the value returned and the exception raised ("" for none).
\* `False` is not callable, calling it raises TypeError; dict(x) makes a new
\* plain dict holding the same keys and the same value objects.
validate(rule, h, obj) ==
    CASE rule = "data_to_raw"     -> [h |-> h, obj |-> Cell("str", obj.v), e |-> ""]
      [] rule = "date_to_str"     -> [h |-> h, obj |-> PyStr(obj), e |-> ""]
      [] rule = "datetime_to_str" -> [h |-> h, obj |-> PyStr(obj), e |-> ""]
      [] rule = "none_to_False"   -> [h |-> h, obj |-> obj, e |-> "TypeError"]
      [] rule = "idict_to_dict"   ->
             [h |-> Append(h, Obj("dict", h[obj.v].v, h[obj.v].keys)),
              obj |-> Ref(Len(h) + 1), e |-> ""]

\* for is_invalid, validate in funcs: if is_invalid(obj): obj = validate(obj)
RECURSIVE ApplyRules(_, _, _, _)
ApplyRules(h, obj, funcs, i) ==
    IF i > Len(funcs) THEN [h |-> h, obj |-> obj, e |-> ""]
    ELSE IF is_invalid(funcs[i], h, obj)
         THEN LET a == validate(funcs[i], h, obj)
              IN  IF a.e # "" THEN a ELSE ApplyRules(a.h, a.obj, funcs, i + 1)
         ELSE ApplyRules(h, obj, funcs, i + 1)

(***************************************************************************)
(* check_recursive.  An outcome is the heap and the checked list after the *)
(* call, the value returned (r) and the exception raised (e, "" for none). *)
(* The operators yield the set of outcomes the call can have: the order in *)
(* which a dict yields its keys and a set its elements is not fixed by the *)
(* code, and an element added to a set during its iteration is or is not   *)
(* yielded later, depending on the slot it lands in.  Set tables stay      *)
(* below the size at which an insertion rebuilds the table.                *)
(***************************************************************************)
Out(h, checked, r, e) == [h |-> h, c |-> checked, r |-> r, e |-> e]

\* the heap with cell i of the container at address a set to c
Store(h, a, i, c) == [h EXCEPT ![a].v[i] = c]

RECURSIVE check_recursive(_, _, _, _)
RECURSIVE DictLoop(_, _, _, _, _)
RECURSIVE ListLoop(_, _, _, _, _, _)
RECURSIVE TupleLoop(_, _, _, _, _, _)
RECURSIVE SetLoop(_, _, _, _, _, _)

\* for key in obj: obj[key] = check_recursive(obj[key])
DictLoop(h, checked, funcs, a, pending) ==
    IF pending = {} THEN {Out(h, checked, Ref(a), "")}
    ELSE UNION { UNION { IF s.e # "" THEN {s}
                         ELSE DictLoop(Store(s.h, a, i, s.r), s.c, funcs, a, pending \ {i})
                         : s \in check_recursive(h, checked, funcs, h[a].v[i]) }
                 : i \in pending }

\* for i in range(len(obj)): obj[i] = check_recursive(obj[i])
ListLoop(h, checked, funcs, a, i, n) ==
    IF i > n THEN {Out(h, checked, Ref(a), "")}
    ELSE UNION { IF s.e # "" THEN {s}
                 ELSE ListLoop(Store(s.h, a, i, s.r), s.c, funcs, a, i + 1, n)
                 : s \in check_recursive(h, checked, funcs, h[a].v[i]) }

\* return tuple([check_recursive(sub_obj) for sub_obj in obj])
TupleLoop(h, checked, funcs, a, i, acc) ==
    IF i > Len(h[a].v)
    THEN {Out(Append(h, Obj("tuple", acc, <<>>)), checked, Ref(Len(h) + 1), "")}
    ELSE UNION { IF s.e # "" THEN {s}
                 ELSE TupleLoop(s.h, s.c, funcs, a, i + 1, Append(acc, s.r))
                 : s \in check_recursive(h, checked, funcs, h[a].v[i]) }

\* for val in obj: new_val = check_recursive(val)
\*                 if new_val != val: obj.remove(val); obj.add(new_val)
\* used0 is the size of the set when the iteration began: the iterator
\* raises RuntimeError when it is asked for the next element of a set whose
\* size differs from it.
SetLoop(h, checked, funcs, a, pending, used0) ==
    IF Len(h[a].v) # used0 THEN {Out(h, checked, None, "RuntimeError")}
    ELSE IF pending = {} THEN {Out(h, checked, Ref(a), "")}
    ELSE UNION { UNION {
           IF s.e # "" THEN {s}
           ELSE IF PyEq(s.h, s.r, s.h, val)
           THEN SetLoop(s.h, s.c, funcs, a, pending \ {val}, used0)
           ELSE LET removed == RemoveAt(s.h[a].v, SetIndex(s.h, s.h[a].v, val))
                    present == SetIndex(s.h, removed, s.r) # 0
                    added   == IF present THEN removed ELSE Append(removed, s.r)
                    h2      == [s.h EXCEPT ![a].v = added]
                    rest    == pending \ {val}
                IN  IF present
                    THEN SetLoop(h2, s.c, funcs, a, rest, used0)
                    ELSE SetLoop(h2, s.c, funcs, a, rest, used0)
                         \cup SetLoop(h2, s.c, funcs, a, rest \cup {s.r}, used0)
           : s \in check_recursive(h, checked, funcs, val) }
         : val \in pending }

check_recursive(h, checked, funcs, obj) ==
    IF InChecked(h, checked, obj) THEN {Out(h, checked, None, "")}
    ELSE LET c1 == Append(checked, obj)
             a  == ApplyRules(h, obj, funcs, 1)
             k  == KindOf(a.h, a.obj)
         IN  IF a.e # "" THEN {Out(a.h, c1, None, a.e)}
             ELSE IF k \in {"dict", "idict"}
                  THEN DictLoop(a.h, c1, funcs, a.obj.v, DOMAIN a.h[a.obj.v].v)
             ELSE IF k = "list"
                  THEN ListLoop(a.h, c1, funcs, a.obj.v, 1, Len(a.h[a.obj.v].v))
             ELSE IF k = "tuple"
                  THEN TupleLoop(a.h, c1, funcs, a.obj.v, 1, <<>>)
             ELSE IF k = "set"
                  THEN SetLoop(a.h, c1, funcs, a.obj.v, SeqToSet(a.h[a.obj.v].v),
                               Len(a.h[a.obj.v].v))
             ELSE {Out(a.h, c1, a.obj, "")}

\* _validate_data(self, data, funcs): checked = []; return check_recursive(data)
validate_data_funcs(h, data, funcs) == check_recursive(h, <<>>, funcs, data)

(***************************************************************************)
(* Values supplied by the data producer: trees of at most a given number   *)
(* of nodes, placed in the heap.                                           *)
(***************************************************************************)
IsScalarTree(t) == t.k \notin ContainerKinds

RECURSIVE Hashable(_)
Hashable(t) ==
    IF IsScalarTree(t) THEN t.k # "data"
    ELSE t.k = "tuple" /\ \A i \in DOMAIN t.v : Hashable(t.v[i])

RECURSIVE TreesN(_)
RECURSIVE Forests(_, _)
\* sequences of len trees with n nodes in all
Forests(n, len) ==
    IF len = 0 THEN (IF n = 0 THEN {<<>>} ELSE {})
    ELSE UNION { { <<t>> \o f : t \in TreesN(m), f \in Forests(n - m, len - 1) }
                 : m \in 1..(n - len + 1) }

\* the trees of exactly n nodes; the keys of a dict are the strings k1..kn
TreesN(n) ==
    IF n = 1
    THEN Scalars \cup { Obj(k, <<>>, <<>>) : k \in ContainerKinds }
    ELSE UNION { UNION {
            { Obj(k, f, IF k \in {"dict", "idict"} THEN [i \in 1..len |-> i] ELSE <<>>)
              : f \in { g \in Forests(n - 1, len) :
                          k = "set" => \A i \in 1..len : Hashable(g[i]) } }
            : k \in ContainerKinds }
         : len \in 1..(n - 1) }

TreesUpTo(n) == UNION { TreesN(m) : m \in 1..n }

\* the tree in the heap: the heap after allocation and the cell denoting it
RECURSIVE Alloc(_, _)
RECURSIVE AllocSeq(_, _, _, _)
AllocSeq(h, ts, i, acc) ==
    IF i > Len(ts) THEN [h |-> h, cells |-> acc]
    ELSE LET a == Alloc(h, ts[i])
         IN  AllocSeq(a.h, ts, i + 1, Append(acc, a.r))

Alloc(h, t) ==
    IF IsScalarTree(t) THEN [h |-> h, r |-> t]
    ELSE LET kids == AllocSeq(h, t.v, 1, <<>>)
         IN  [h |-> Append(kids.h, Obj(t.k, kids.cells, t.keys)),
              r |-> Ref(Len(kids.h) + 1)]

\* a set holds no two equal elements
WellFormed(h) ==
    \A a \in DOMAIN h : h[a].k = "set" =>
        \A i, j \in DOMAIN h[a].v : i # j => ~PyEq(h, h[a].v[i], h, h[a].v[j])

\* the values of at most n nodes the producer can build
ValuesUpTo(n) == { t \in TreesUpTo(n) : WellFormed(Alloc(<<>>, t).h) }

Inputs == ValuesUpTo(MaxNodes)

\* for two conversions at once: scalars and containers of scalars, over the
\* scalars the three rule lists treat differently
ScalarsConc == {None, Int1, StrOfDate(Date1), Date1, DataA}

InputsConc ==
    { t \in ValuesUpTo(MaxNodesConc) :
        IF IsScalarTree(t) THEN t \in ScalarsConc
        ELSE \A i \in DOMAIN t.v : t.v[i] \in ScalarsConc }

\* the value a cell denotes, read out of the heap: what an encoder sees.
\* A set reads as the set of its elements, a dict as its values by key.
RECURSIVE Deref(_, _)
Deref(h, c) ==
    IF ~IsRef(c) THEN c
    ELSE LET x == h[c.v]
         IN  IF x.k = "set"
             THEN [k |-> "set", v |-> {Deref(h, x.v[i]) : i \in DOMAIN x.v}, keys |-> <<>>]
             ELSE [k |-> x.k, v |-> [i \in DOMAIN x.v |-> Deref(h, x.v[i])], keys |-> x.keys]

(***************************************************************************)
(* The classes of the module and its global names.                         *)
(***************************************************************************)
Classes == {"DumperProto", "JSONDumper", "PlistDumper", "YAMLDumper"}

\* class attribute `name`
NameOf(c) ==
    CASE c = "DumperProto" -> ""
      [] c = "JSONDumper"  -> "JSON"
      [] c = "PlistDumper" -> "Property List"
      [] c = "YAMLDumper"  -> "YAML"

\* class attribute `ext`
ExtOf(c) ==
    CASE c = "DumperProto" -> ""
      [] c = "JSONDumper"  -> "json"
      [] c = "PlistDumper" -> "plist"
      [] c = "YAMLDumper"  -> "yaml"

\* dir() at module level when the collecting loop starts, in sorted order
DirNames == << "DumperProto", "JSONDumper", "OutputPanel", "PlistDumper",
               "YAMLDumper", "__builtins__", "__doc__", "__file__", "__name__",
               "__package__", "datetime", "get", "json", "plistlib", "yaml" >>

\* globals()[type_name].__bases__; "AttributeError" for an object that has
\* no __bases__ (a module, a dict, a string, None)
BasesOf(type_name) ==
    CASE type_name = "DumperProto" -> <<"object">>
      [] type_name \in {"JSONDumper", "PlistDumper", "YAMLDumper"} -> <<"DumperProto">>
      [] type_name = "OutputPanel" -> <<"object">>
      [] OTHER -> "AttributeError"

RECURSIVE issubclass(_, _)
issubclass(t, c) ==
    \/ t = c
    \/ /\ t \in {"DumperProto", "JSONDumper", "PlistDumper", "YAMLDumper", "OutputPanel"}
       /\ \E i \in DOMAIN BasesOf(t) : issubclass(BasesOf(t)[i], c)

\* the pass without the test `not t is DumperProto`
CollectOneKeepingBase(registry, type_name) ==
    IF BasesOf(type_name) = "AttributeError" THEN registry
    ELSE IF Len(BasesOf(type_name)) > 0 /\ issubclass(type_name, "DumperProto")
         THEN [x \in DOMAIN registry \cup {ExtOf(type_name)} |->
                   IF x = ExtOf(type_name) THEN type_name ELSE registry[x]]
         ELSE registry

\* one pass of the body of `for type_name in dir()`: the registry after it
CollectOne(registry, type_name) ==
    IF BasesOf(type_name) = "AttributeError" THEN registry
    ELSE IF Len(BasesOf(type_name)) > 0
              /\ issubclass(type_name, "DumperProto") /\ type_name # "DumperProto"
         THEN [x \in DOMAIN registry \cup {ExtOf(type_name)} |->
                   IF x = ExtOf(type_name) THEN type_name ELSE registry[x]]
         ELSE registry

RECURSIVE CollectFrom(_, _)
CollectFrom(registry, i) ==
    IF i > Len(DirNames) THEN registry
    ELSE CollectFrom(CollectOne(registry, DirNames[i]), i + 1)

EmptyDict == [x \in {} |-> ""]

(***************************************************************************)
(* validate_data and write of each class.                                  *)
(***************************************************************************)
\* the funcs list the class's validate_data passes to _validate_data
FuncsOf(c) ==
    CASE c = "JSONDumper"  -> JSONFuncs
      [] c = "PlistDumper" -> PlistFuncs
      [] c = "YAMLDumper"  -> YAMLFuncs

\* self.validate_data(data): the outcomes of the call.  DumperProto's body
\* is `pass`, it returns None.
validate_data(c, h, data) ==
    IF c = "DumperProto" THEN {Out(h, <<>>, None, "")}
    ELSE validate_data_funcs(h, data, FuncsOf(c))

Absent  == [st |-> "absent"]
Partial == [st |-> "partial"]
Written(c, doc) == [st |-> "written", fmt |-> NameOf(c), doc |-> doc]

\* exceptions the file system and the encoders raise
WriteErrors == {"IOError", "TypeError"}

\* self.write(data): the outcomes of the call, each the exception raised
\* ("" for none) and the target file afterwards.  DumperProto's body is
\* `pass`.  The others open the target and then encode into it: open fails
\* with IOError and leaves the file as it was; a failure after that (the
\* encoder rejecting a value, an I/O error) leaves it partly written.
write(c, h, data, old) ==
    IF c = "DumperProto" THEN {[e |-> "", file |-> old]}
    ELSE {[e |-> "", file |-> Written(c, Deref(h, data))]}
         \cup {[e |-> "IOError", file |-> old]}
         \cup {[e |-> x, file |-> Partial] : x \in WriteErrors}

(***************************************************************************)
(* State.                                                                  *)
(***************************************************************************)
Convs == {1, 2}
Panels == {"given", "window"}
Exts == {"json", "plist", "yaml", "", "xml"}
NoValue == Cell("unsupplied", 0)

VARIABLES
    loadIdx,        \* position of the collecting loop in DirNames
    is_plugin,      \* module global set by the loop
    get,            \* the registry: extension -> class
    heap,           \* the Python objects
    heap0,          \* the heap as the data producer left it
    supplied,       \* per conversion: the value the producer hands to dump
    pc,             \* per conversion: new, failed, ready, validate, write, done
    cls,            \* per conversion: class of the dumper instance
    window,         \* self.window (0 is None)
    file_path,      \* self.file_path
    output,         \* self.output: "unset" when the attribute was never set
    new_file_path,  \* self.new_file_path
    data,           \* the local `data` of dump
    e,              \* the local `e` of dump: the exception caught ("" for none)
    sanitized,      \* what validate_data returned, as read when it returned
    passed,         \* what dump handed to write, as read at the call
    ret,            \* what dump returned: pending, True, None, raised
    exc,            \* the exception that left the call ("" for none)
    panel,          \* the output panels: lines written and whether shown
    files           \* the files

vars == << loadIdx, is_plugin, get, heap, heap0, supplied, pc, cls, window, file_path,
           output, new_file_path, data, e, sanitized, passed, ret, exc, panel, files >>

loaded == loadIdx > Len(DirNames)

\* the target path the caller gives conversion i
PathOf(i) == IF i = 1 THEN "p1" ELSE "p2"
\* view.file_name(): the source file being converted
ViewFileName == "src"
Paths == {PathOf(i) : i \in Convs} \cup {ViewFileName, "alt"}

StartLine(name, path) == [t |-> "Writing %s... (%s)", name |-> name, arg |-> path]
ErrorLine(name, msg) == [t |-> "Error writing %s: %s", name |-> name, arg |-> msg]

InitInstances ==
    /\ pc = [i \in Convs |-> "new"]
    /\ cls = [i \in Convs |-> "none"]
    /\ window = [i \in Convs |-> 0]
    /\ file_path = [i \in Convs |-> ""]
    /\ output = [i \in Convs |-> "unset"]
    /\ new_file_path = [i \in Convs |-> ""]

InitCalls ==
    /\ data = [i \in Convs |-> NoValue]
    /\ e = [i \in Convs |-> ""]
    /\ sanitized = [i \in Convs |-> NoValue]
    /\ passed = [i \in Convs |-> NoValue]
    /\ ret = [i \in Convs |-> "pending"]
    /\ exc = [i \in Convs |-> ""]
    /\ panel = [p \in Panels |-> [lines |-> <<>>, shown |-> FALSE]]
    /\ files = [p \in Paths |-> Absent]

\* the module is being loaded: `get = dict()` has run, the loop has not
Init ==
    /\ loadIdx = 1
    /\ is_plugin = "unset"
    /\ get = EmptyDict
    /\ heap = <<>>
    /\ heap0 = <<>>
    /\ supplied = [i \in Convs |-> NoValue]
    /\ InitInstances
    /\ InitCalls

(***************************************************************************)
(* Module load: one iteration of the collecting loop.                      *)
(***************************************************************************)
LoadStep ==
    /\ ~loaded
    /\ get' = CollectOne(get, DirNames[loadIdx])
    /\ is_plugin' = IF BasesOf(DirNames[loadIdx]) # "AttributeError"
                       /\ Len(BasesOf(DirNames[loadIdx])) > 0
                    THEN "False" ELSE is_plugin
    /\ loadIdx' = loadIdx + 1
    /\ UNCHANGED << heap, heap0, supplied, pc, cls, window, file_path, output,
                    new_file_path, data, e, sanitized, passed, ret, exc, panel, files >>

(***************************************************************************)
(* The callers: the data producer and the lookup in the registry.          *)
(***************************************************************************)
\* the data producer builds the value of conversion i
Produce(i, t) ==
    /\ loaded
    /\ supplied[i] = NoValue
    /\ \A j \in Convs : pc[j] \in {"new", "ready", "failed"}
    /\ LET a == Alloc(heap, t)
       IN  /\ heap' = a.h
           /\ heap0' = a.h
           /\ supplied' = [supplied EXCEPT ![i] = a.r]
    /\ UNCHANGED << loadIdx, is_plugin, get, pc, cls, window, file_path, output,
                    new_file_path, data, e, sanitized, passed, ret, exc, panel, files >>

\* get[ext] for an extension that is no key: KeyError, no dumper is made
LookupFail(i, ext) ==
    /\ loaded
    /\ pc[i] = "new"
    /\ ext \notin DOMAIN get
    /\ pc' = [pc EXCEPT ![i] = "failed"]
    /\ exc' = [exc EXCEPT ![i] = "KeyError"]
    /\ UNCHANGED << loadIdx, is_plugin, get, heap, heap0, supplied, cls, window,
                    file_path, output, new_file_path, data, e, sanitized, passed,
                    ret, panel, files >>

(***************************************************************************)
(* DumperProto.__init__                                                    *)
(***************************************************************************)
\* the attributes __init__ sets, for c(window, view, new_file_path, output,
\* file_path): out = 1 is an OutputPanel, out = 0 and fp = "" are None
InitAttrs(w, path, out, fp) ==
    [window |-> w,
     file_path |-> IF fp # "" THEN fp ELSE ViewFileName,
     new_file_path |-> path,
     output |-> IF out = 1 THEN "given" ELSE IF w # 0 THEN "window" ELSE "unset"]

Construct(i, c, w, out, fp) ==
    /\ loaded
    /\ pc[i] = "new"
    /\ pc' = [pc EXCEPT ![i] = "ready"]
    /\ cls' = [cls EXCEPT ![i] = c]
    /\ LET a == InitAttrs(w, PathOf(i), out, fp)
       IN  /\ window' = [window EXCEPT ![i] = a.window]
           /\ file_path' = [file_path EXCEPT ![i] = a.file_path]
           /\ new_file_path' = [new_file_path EXCEPT ![i] = a.new_file_path]
           /\ output' = [output EXCEPT ![i] = a.output]
    /\ UNCHANGED << loadIdx, is_plugin, get, heap, heap0, supplied, data, e,
                    sanitized, passed, ret, exc, panel, files >>

\* the (window, output, file_path) arguments the callers pass
CtorArgs == {<<0, 0, "">>, <<1, 0, "">>, <<1, 1, "">>, <<0, 1, "alt">>}

\* the class is found in the registry by the target's extension
ConstructByExt(i, ext, args) ==
    /\ ext \in DOMAIN get
    /\ Construct(i, get[ext], args[1], args[2], args[3])

\* the base class is instantiated directly
ConstructProto(i, args) == Construct(i, "DumperProto", args[1], args[2], args[3])

(***************************************************************************)
(* DumperProto.dump, in three steps: the two lines that announce the       *)
(* conversion, the call of validate_data, the call of write with its       *)
(* try/except/else.                                                        *)
(***************************************************************************)
\* self.output.write_line("Writing ..."); self.output.show()
DumpCall(i) ==
    /\ pc[i] = "ready"
    /\ supplied[i] # NoValue
    /\ IF output[i] = "unset"
       THEN /\ exc' = [exc EXCEPT ![i] = "AttributeError"]
            /\ ret' = [ret EXCEPT ![i] = "raised"]
            /\ pc' = [pc EXCEPT ![i] = "done"]
            /\ UNCHANGED << data, panel >>
       ELSE /\ panel' = [panel EXCEPT ![output[i]] =
                            [lines |-> Append(@.lines, StartLine(NameOf(cls[i]), new_file_path[i])),
                             shown |-> TRUE]]
            /\ data' = [data EXCEPT ![i] = supplied[i]]
            /\ pc' = [pc EXCEPT ![i] = "validate"]
            /\ UNCHANGED << exc, ret >>
    /\ UNCHANGED << loadIdx, is_plugin, get, heap, heap0, supplied, cls, window,
                    file_path, output, new_file_path, e, sanitized, passed, files >>

\* data = self.validate_data(data), outside the try
DumpValidate(i) ==
    /\ pc[i] = "validate"
    /\ \E o \in validate_data(cls[i], heap, data[i]) :
          /\ heap' = o.h
          /\ IF o.e # ""
             THEN /\ exc' = [exc EXCEPT ![i] = o.e]
                  /\ ret' = [ret EXCEPT ![i] = "raised"]
                  /\ pc' = [pc EXCEPT ![i] = "done"]
                  /\ UNCHANGED << data, sanitized >>
             ELSE /\ data' = [data EXCEPT ![i] = o.r]
                  /\ sanitized' = [sanitized EXCEPT ![i] = Deref(o.h, o.r)]
                  /\ pc' = [pc EXCEPT ![i] = "write"]
                  /\ UNCHANGED << exc, ret >>
    /\ UNCHANGED << loadIdx, is_plugin, get, heap0, supplied, cls, window, file_path,
                    output, new_file_path, e, passed, panel, files >>

\* the write methods opening self.file_path, the file being converted
WriteTargetSource(i) == file_path[i]

\* the file the write methods open: self.new_file_path
WriteTarget(i) == new_file_path[i]

\* `return True` after the try statement instead of in its else clause
ReturnTrueAlways(caught) == "True"

\* what dump returns after the try statement: True from the else clause,
\* None when the except clause ran
ReturnOf(caught) == IF caught # "" THEN "None" ELSE "True"

\* the lines the except clause writes for the exception caught
ExceptLines(name, caught) == IF caught # "" THEN <<ErrorLine(name, caught)>> ELSE <<>>

\* try: self.write(data) / except Exception, e: write_line / else: return True
DumpWrite(i) ==
    /\ pc[i] = "write"
    /\ \E o \in write(cls[i], heap, data[i], files[WriteTarget(i)]) :
          /\ files' = [files EXCEPT ![WriteTarget(i)] = o.file]
          /\ e' = [e EXCEPT ![i] = o.e]
          /\ panel' = [panel EXCEPT ![output[i]].lines = @ \o ExceptLines(NameOf(cls[i]), o.e)]
          /\ ret' = [ret EXCEPT ![i] = ReturnOf(o.e)]
    /\ passed' = [passed EXCEPT ![i] = Deref(heap, data[i])]
    /\ pc' = [pc EXCEPT ![i] = "done"]
    /\ UNCHANGED << loadIdx, is_plugin, get, heap, heap0, supplied, cls, window,
                    file_path, output, new_file_path, data, sanitized, exc >>

(***************************************************************************)
(* One conversion, from the loading of the module on.                      *)
(***************************************************************************)
Next ==
    \/ LoadStep
    \/ \E t \in Inputs : Produce(1, t)
    \/ \E ext \in Exts : LookupFail(1, ext)
    \/ \E ext \in Exts, args \in CtorArgs : ConstructByExt(1, ext, args)
    \/ \E args \in CtorArgs : ConstructProto(1, args)
    \/ DumpCall(1)
    \/ DumpValidate(1)
    \/ DumpWrite(1)

Spec == Init /\ [][Next]_vars

(***************************************************************************)
(* The sanitizer on its own: dump is called on a dumper of a registered    *)
(* class with a value of up to MaxNodesSan nodes and runs up to the return *)
(* of validate_data.                                                       *)
(***************************************************************************)
Registered == CollectFrom(EmptyDict, 1)
RegisteredClasses == {Registered[x] : x \in DOMAIN Registered}

InitLoaded ==
    /\ loadIdx = Len(DirNames) + 1
    /\ is_plugin = "False"
    /\ get = Registered

InitSan ==
    /\ InitLoaded
    /\ \E t \in ValuesUpTo(MaxNodesSan) : \E c \in RegisteredClasses :
          LET a == Alloc(<<>>, t)
              attrs == InitAttrs(1, PathOf(1), 0, "")
          IN  /\ heap = a.h
              /\ heap0 = a.h
              /\ supplied = [i \in Convs |-> IF i = 1 THEN a.r ELSE NoValue]
              /\ pc = [i \in Convs |-> IF i = 1 THEN "ready" ELSE "new"]
              /\ cls = [i \in Convs |-> IF i = 1 THEN c ELSE "none"]
              /\ window = [i \in Convs |-> IF i = 1 THEN attrs.window ELSE 0]
              /\ file_path = [i \in Convs |-> IF i = 1 THEN attrs.file_path ELSE ""]
              /\ output = [i \in Convs |-> IF i = 1 THEN attrs.output ELSE "unset"]
              /\ new_file_path = [i \in Convs |-> IF i = 1 THEN attrs.new_file_path ELSE ""]
    /\ InitCalls

NextSan ==
    \/ DumpCall(1)
    \/ DumpValidate(1)

SpecSan == InitSan /\ [][NextSan]_vars

(***************************************************************************)
(* Two conversions at once, each on its own dumper and its own target, in  *)
(* the same window.  The producer hands them one object (alias) or two     *)
(* objects of the same value.                                              *)
(***************************************************************************)
InitConc ==
    /\ InitLoaded
    /\ \E t \in InputsConc : \E alias \in BOOLEAN :
          LET a == Alloc(<<>>, t)
              b == IF alias THEN a ELSE Alloc(a.h, t)
          IN  /\ heap = b.h
              /\ heap0 = b.h
              /\ supplied = [i \in Convs |-> IF i = 1 THEN a.r ELSE b.r]
    /\ cls \in [Convs -> RegisteredClasses]
    /\ pc = [i \in Convs |-> "ready"]
    /\ window = [i \in Convs |-> InitAttrs(1, PathOf(i), 0, "").window]
    /\ file_path = [i \in Convs |-> InitAttrs(1, PathOf(i), 0, "").file_path]
    /\ output = [i \in Convs |-> InitAttrs(1, PathOf(i), 0, "").output]
    /\ new_file_path = [i \in Convs |-> InitAttrs(1, PathOf(i), 0, "").new_file_path]
    /\ InitCalls

NextConc ==
    \E i \in Convs :
        \/ DumpCall(i)
        \/ DumpValidate(i)
        \/ DumpWrite(i)

SpecConc == InitConc /\ [][NextConc]_vars

(***************************************************************************)
(* Vocabulary of the properties.                                           *)
(***************************************************************************)
\* the lines conversion i's dumper has in its panel
LinesOf(i) == IF output[i] = "unset" THEN <<>> ELSE panel[output[i]].lines

IsErrorLine(l) == l.t = "Error writing %s: %s"
ErrorLines(lines) == SelectSeq(lines, IsErrorLine)

\* dump was called on conversion i's dumper
Called(i) == pc[i] \in {"validate", "write", "done"}
\* validate_data was called and raised
SanitizeRaised(i) == pc[i] = "done" /\ data[i] # NoValue /\ passed[i] = NoValue
\* validate_data was called and has returned or raised
Sanitized(i) == pc[i] \in {"write", "done"} /\ data[i] # NoValue
\* write was called and has returned or raised
WriteCalled(i) == pc[i] = "done" /\ passed[i] # NoValue

\* the value the producer supplied to conversion i, as it was then
GivenTree(i) == Deref(heap0, supplied[i])

\* the children of a tree, as a set
Kids(t) == IF IsScalarTree(t) THEN {}
           ELSE IF t.k = "set" THEN t.v ELSE SeqToSet(t.v)

RECURSIVE HasNone(_)
HasNone(t) == t = None \/ \E u \in Kids(t) : HasNone(u)

IsDate(c) == c.k \in {"date", "datetime"}

RECURSIVE HasDate(_)
HasDate(t) == IsDate(t) \/ \E u \in Kids(t) : HasDate(u)

\* no sub-value of the value at c satisfies a predicate of funcs
RECURSIVE NoMatch(_, _, _)
NoMatch(funcs, h, c) ==
    /\ \A r \in DOMAIN funcs : ~is_invalid(funcs[r], h, c)
    /\ IsRef(c) => \A i \in DOMAIN h[c.v].v : NoMatch(funcs, h, h[c.v].v[i])

\* what a rule list is meant to make of a scalar: each matching rule's
\* replacement in turn, null -> false for the Plist rule
RECURSIVE IntendedScalar(_, _, _)
IntendedScalar(funcs, c, i) ==
    IF i > Len(funcs) THEN c
    ELSE IF ~is_invalid(funcs[i], <<>>, c) THEN IntendedScalar(funcs, c, i + 1)
    ELSE IF funcs[i] = "none_to_False" THEN IntendedScalar(funcs, PyFalse, i + 1)
    ELSE IntendedScalar(funcs, validate(funcs[i], <<>>, c).obj, i + 1)

\* the sanitized form of a set element (a scalar or a tuple of such)
RECURSIVE IntendedTree(_, _)
IntendedTree(funcs, t) ==
    IF IsScalarTree(t) THEN IntendedScalar(funcs, t, 1)
    ELSE [k |-> t.k, v |-> [i \in DOMAIN t.v |-> IntendedTree(funcs, t.v[i])], keys |-> t.keys]

\* every position of the value at a (in h0) that held a date or datetime
\* holds its string form in the value at b (in h)
RECURSIVE DatesReplaced(_, _, _, _)
DatesReplaced(h0, a, h, b) ==
    IF IsDate(a) THEN b = PyStr(a)
    ELSE IF ~IsRef(a) THEN TRUE
    ELSE IF ~IsRef(b) THEN ~HasDate(Deref(h0, a))
    ELSE LET x == h0[a.v]
             y == h[b.v]
         IN  IF x.k = "set"
             THEN \A i \in DOMAIN x.v : IsDate(x.v[i]) =>
                        \E j \in DOMAIN y.v : y.v[j] = PyStr(x.v[i])
             ELSE /\ Len(y.v) = Len(x.v)
                  /\ \A i \in DOMAIN x.v : DatesReplaced(h0, x.v[i], h, y.v[i])

\* the objects reachable from a cell
RECURSIVE Reach(_, _)
Reach(h, c) ==
    IF ~IsRef(c) THEN {}
    ELSE {c.v} \cup UNION { Reach(h, h[c.v].v[i]) : i \in DOMAIN h[c.v].v }

\* the two conversions were handed a common object that can be rewritten in
\* place (a list, a dict, a set)
SharedMutable ==
    \E a \in Reach(heap0, supplied[1]) \cap Reach(heap0, supplied[2]) : heap0[a].k # "tuple"

\* the outcomes conversion i has when it runs alone on the value it was
\* handed: the sanitized value, the target file, what dump returns or raises
SoloRuns(i) ==
    UNION { IF o.e # ""
            THEN {[san |-> NoValue, file |-> Absent, ret |-> "raised", exc |-> o.e]}
            ELSE {[san |-> Deref(o.h, o.r), file |-> w.file, ret |-> ReturnOf(w.e), exc |-> ""]
                  : w \in write(cls[i], o.h, o.r, Absent)}
            : o \in validate_data(cls[i], heap0, supplied[i]) }

Outcome(i) == [san |-> sanitized[i], file |-> files[new_file_path[i]],
               ret |-> ret[i], exc |-> exc[i]]

(***************************************************************************)
(* Properties.                                                             *)
(***************************************************************************)

\* C1: when write was called and raised, dump returns a value other than
\* True, its panel holds exactly one error line, "Error writing <name>:
\* <message>" for the class's name and the exception, and no exception
\* leaves dump; when write raised nothing, dump returns True and the panel
\* holds no error line.
C1_WriteFailureReported ==
    WriteCalled(1) =>
        /\ exc[1] = ""
        /\ IF e[1] # ""
           THEN /\ ret[1] # "True"
                /\ ErrorLines(LinesOf(1)) = <<ErrorLine(NameOf(cls[1]), e[1])>>
           ELSE /\ ret[1] = "True"
                /\ ErrorLines(LinesOf(1)) = <<>>

\* a dump whose write raised IOError
C1_Witness ==
    /\ WriteCalled(1) /\ e[1] = "IOError" /\ ret[1] = "None"
    /\ Len(ErrorLines(LinesOf(1))) = 1

\* C2: an exception raised by validate_data inside dump does not leave
\* dump: an error line is written and dump returns a value other than True.
C2_SanitizeFailureCaught ==
    SanitizeRaised(1) =>
        /\ exc[1] = ""
        /\ ret[1] = "None"
        /\ Len(ErrorLines(LinesOf(1))) = 1

\* C3: when no sub-value of the value satisfies a predicate of the rules,
\* _validate_data returns a value equal to the one it was given.
C3_IdentityWhenNothingApplies ==
    (Sanitized(1) /\ NoMatch(FuncsOf(cls[1]), heap0, supplied[1])) =>
        /\ exc[1] = ""
        /\ PyEq(heap, data[1], heap0, supplied[1])

\* C4: sanitizing a value that holds dates or datetimes with the JSON or
\* the Plist rules puts the string form at every position that held one,
\* and no date rule matches the string form.  Stated for the values that
\* hold no None, which is the matter of C5.
C4_DatesBecomeStrings ==
    (/\ Sanitized(1) /\ cls[1] \in {"JSONDumper", "PlistDumper"}
     /\ HasDate(GivenTree(1)) /\ ~HasNone(GivenTree(1))) =>
        /\ exc[1] = ""
        /\ DatesReplaced(heap0, supplied[1], heap, data[1])
        /\ \A d \in {Date1, DateTime2} : \A r \in {"date_to_str", "datetime_to_str"} :
               ~is_invalid(r, <<>>, PyStr(d))

\* C5: sanitizing with the Plist rules replaces every None by False: the
\* value handed to PlistDumper.write holds no None.
C5_PlistNullBecomesFalse ==
    (Sanitized(1) /\ cls[1] = "PlistDumper" /\ HasNone(GivenTree(1))) =>
        /\ exc[1] = ""
        /\ ~HasNone(sanitized[1])
        /\ pc[1] = "done" => ~HasNone(passed[1])

\* C6: once the module is loaded, and whatever is done afterwards, the
\* registry maps json, plist and yaml to the three dumper classes and has no
\* other key: a class is a value iff it derives from DumperProto and is not
\* DumperProto, and every other extension is not found.
C6_RegistryExact ==
    loaded =>
        /\ get = ("json" :> "JSONDumper") @@ ("plist" :> "PlistDumper")
                    @@ ("yaml" :> "YAMLDumper")
        /\ \A c \in Classes \cup {"OutputPanel"} :
               (\E x \in DOMAIN get : get[x] = c)
                   <=> (issubclass(c, "DumperProto") /\ c # "DumperProto")
        /\ \A x \in Exts \ {"json", "plist", "yaml"} : x \notin DOMAIN get

\* a YAML dumper found by its extension has been constructed and has dumped
C6_Witness ==
    /\ loaded /\ pc[1] = "done" /\ ret[1] = "True"
    /\ cls[1] = "YAMLDumper" /\ get["yaml"] = cls[1]

\* C7 as stated: whatever the two conversions are handed, each one's
\* sanitized value, target file and result are ones it has when run alone.
C7_IsolatedAlways ==
    \A i \in Convs : pc[i] = "done" => Outcome(i) \in SoloRuns(i)

\* C7 as amended: the same, when the two conversions are not handed a
\* common list, dict or set.
C7_IsolatedUnlessShared ==
    ~SharedMutable => \A i \in Convs : pc[i] = "done" => Outcome(i) \in SoloRuns(i)

\* both conversions ran to the end on separate objects, and the sanitizer
\* of the first rewrote its value
C7_Witness ==
    /\ ~SharedMutable
    /\ \A i \in Convs : pc[i] = "done" /\ ret[i] = "True"
    /\ IsRef(supplied[1])
    /\ sanitized[1] # GivenTree(1)

\* C8: on every call of dump on a dumper that has its panel, whatever the
\* outcome, the start line is the first line of the panel and the panel is
\* shown before validate_data and write are attempted, and no exception
\* leaves dump.
C8_AlwaysAnnouncedNeverRaises ==
    (Called(1) /\ output[1] # "unset") =>
        /\ Len(LinesOf(1)) > 0
        /\ LinesOf(1)[1] = StartLine(NameOf(cls[1]), new_file_path[1])
        /\ panel[output[1]].shown
        /\ exc[1] = ""

\* C9: a dumper that does not override validate_data hands to write the
\* value dump was given.
C9_DefaultValidateIsNoop ==
    (WriteCalled(1) /\ cls[1] = "DumperProto") => passed[1] = GivenTree(1)

\* C10: sanitizing a set leaves, in every order of iteration, the set of
\* the sanitized forms of its elements.  Stated for the sets that hold no
\* None, which is the matter of C5.
C10_SetOrderIndependent ==
    (/\ Sanitized(1) /\ KindOf(heap0, supplied[1]) = "set"
     /\ ~HasNone(GivenTree(1))) =>
        /\ exc[1] = ""
        /\ sanitized[1].k = "set"
        /\ sanitized[1].v = { IntendedTree(FuncsOf(cls[1]), t) : t \in GivenTree(1).v }
====
